---------------------------- MODULE Spec2Model ----------------------------
(***************************************************************************)
(* Model of the Streamlit demo pages of revenue-automation-portfolio.      *)
(*                                                                         *)
(*   lead_intelligence_demo.py  - the lead page: one script that Streamlit *)
(*       re-runs from top to bottom after every widget interaction.  The   *)
(*       widget values and st.session_state survive from one run to the    *)
(*       next; everything else is recomputed.                              *)
(*   revenue_dashboard.py       - the dashboard: load_mock_data and the    *)
(*       aggregates computed from its three tables.                        *)
(*   customer_success_rag.py    - the customer success page: a query box   *)
(*       and a canned response.                                            *)
(*                                                                         *)
(* Strings are TLA+ strings; Len and SubSeq act on them character by       *)
(* character, as Python's len and slicing do.                              *)
(***************************************************************************)
EXTENDS Integers, Sequences, FiniteSets, TLC

VARIABLES
    widgets,        \* lead page, per session: the values of the input widgets
    pressed,        \* lead page, per session: the button that returned True in the last run
    session_state,  \* lead page, per session: st.session_state (attribute -> value)
    shown,          \* lead page, per session: what the last run put on the page
    sidebar,        \* dashboard: the values of the sidebar widgets
    clicked,        \* dashboard: whether "Schedule Demo" returned True in the last run
    data,           \* dashboard: the three frames as the last run left them
    view,           \* dashboard: what the last run put on the page
    cache,          \* dashboard: the st.cache_data entry of load_mock_data
    rag,            \* customer success page: the widget values and the button
    chat            \* customer success page: what the last run put on the page

leadVars == <<widgets, pressed, session_state, shown>>
dashVars == <<sidebar, clicked, data, view, cache>>
ragVars == <<rag, chat>>
vars == <<widgets, pressed, session_state, shown, sidebar, clicked, data, view,
          cache, rag, chat>>

(***************************************************************************)
(* Python helpers                                                          *)
(***************************************************************************)

\* needle in haystack, for Python strings
Contains(needle, haystack) ==
    \E i \in 1..(Len(haystack) - Len(needle) + 1) :
        SubSeq(haystack, i, i + Len(needle) - 1) = needle

(***************************************************************************)
(* Python floats (IEEE 754 binary64), for the finite values >= 0 that the  *)
(* ROI calculator computes.  A float is [m, e]: the value m * 2^e, with m  *)
(* written as its bits, most significant first, odd and at most 53 bits    *)
(* long (empty, with e = 0, for 0.0).  Long bit strings are handled in     *)
(* groups of 15 bits so that every product fits a machine integer.         *)
(***************************************************************************)

RECURSIVE BitsOf(_)
BitsOf(n) == IF n = 0 THEN << >> ELSE BitsOf(n \div 2) \o <<n % 2>>

RECURSIVE IntOf(_)
IntOf(b) ==
    IF Len(b) = 0 THEN 0
    ELSE 2 * IntOf(SubSeq(b, 1, Len(b) - 1)) + b[Len(b)]

Zeros(n) == [i \in 1..n |-> 0]

StripLeading(b) ==
    IF \A i \in 1..Len(b) : b[i] = 0 THEN << >>
    ELSE SubSeq(b, CHOOSE i \in 1..Len(b) :
                       b[i] = 1 /\ \A j \in 1..(i - 1) : b[j] = 0,
                Len(b))

\* b + 1
Increment(b) ==
    IF \A i \in 1..Len(b) : b[i] = 1 THEN <<1>> \o Zeros(Len(b))
    ELSE LET z == CHOOSE i \in 1..Len(b) :
                      b[i] = 0 /\ \A j \in (i + 1)..Len(b) : b[j] = 1
         IN  SubSeq(b, 1, z - 1) \o <<1>> \o Zeros(Len(b) - z)

\* the exact value b * 2^e with trailing zero bits moved into the exponent
Dyadic(b, e) ==
    LET s == StripLeading(b)
    IN  IF Len(s) = 0 THEN [m |-> << >>, e |-> 0]
        ELSE LET last == CHOOSE i \in 1..Len(s) :
                             s[i] = 1 /\ \A j \in (i + 1)..Len(s) : s[j] = 0
             IN  [m |-> SubSeq(s, 1, last), e |-> e + Len(s) - last]

\* round to nearest, ties to even, to 53 significant bits: the value is
\* b * 2^e, plus a non-zero tail below the last bit when sticky
RoundToDouble(b, e, sticky) ==
    LET s == StripLeading(b)
    IN  IF Len(s) <= 53 THEN Dyadic(s, e)
        ELSE LET keep == SubSeq(s, 1, 53)
                 tail == sticky \/ \E i \in 55..Len(s) : s[i] = 1
                 up   == s[54] = 1 /\ (tail \/ keep[53] = 1)
             IN  Dyadic(IF up THEN Increment(keep) ELSE keep, e + Len(s) - 53)

\* a bit string as groups of 15 bits, most significant first
Limbs(b) ==
    LET k == (Len(b) + 14) \div 15
        p == Zeros(15 * k - Len(b)) \o b
    IN  [i \in 1..k |-> IntOf(SubSeq(p, 15 * (i - 1) + 1, 15 * i))]

BitsOfLimbs(l) ==
    [j \in 1..(15 * Len(l)) |->
        (l[((j - 1) \div 15) + 1] \div 2^(14 - ((j - 1) % 15))) % 2]

\* the first n groups of r / d after the binary point (0 <= r < d)
RECURSIVE FractionLimbs(_, _, _)
FractionLimbs(r, d, n) ==
    IF n = 0 THEN << >>
    ELSE <<(32768 * r) \div d>> \o FractionLimbs((32768 * r) % d, d, n - 1)

\* the remainder left after those n groups
RECURSIVE FractionRest(_, _, _)
FractionRest(r, d, n) ==
    IF n = 0 THEN r ELSE FractionRest((32768 * r) % d, d, n - 1)

\* x / d for a float x with a short mantissa and a small integer d
FloatDivInt(x, d) ==
    LET n == IntOf(x.m)
    IN  RoundToDouble(BitsOf(n \div d) \o BitsOfLimbs(FractionLimbs(n % d, d, 5)),
                      x.e - 75, FractionRest(n % d, d, 5) # 0)

RECURSIVE TimesLimbs(_, _, _)
TimesLimbs(l, k, carry) ==
    IF Len(l) = 0 THEN <<carry>>
    ELSE LET t == l[Len(l)] * k + carry
         IN  TimesLimbs(SubSeq(l, 1, Len(l) - 1), k, t \div 32768)
             \o <<t % 32768>>

\* b * k, exactly, for 0 <= k < 32768
TimesBits(b, k) == StripLeading(BitsOfLimbs(TimesLimbs(Limbs(b), k, 0)))

\* x * k for a float x and a small integer k >= 0
FloatTimesInt(x, k) == RoundToDouble(TimesBits(x.m, k), x.e, FALSE)

Min(a, b) == IF a < b THEN a ELSE b

\* the mantissas of x and y over their common exponent, at equal length
Aligned(x, y) ==
    LET e  == Min(x.e, y.e)
        xm == x.m \o Zeros(x.e - e)
        ym == y.m \o Zeros(y.e - e)
        n  == IF Len(xm) > Len(ym) THEN Len(xm) ELSE Len(ym)
    IN  [x |-> Zeros(n - Len(xm)) \o xm, y |-> Zeros(n - Len(ym)) \o ym, e |-> e]

\* a - b - borrow for equally many groups with a >= b
RECURSIVE MinusLimbs(_, _, _)
MinusLimbs(a, b, borrow) ==
    IF Len(a) = 0 THEN << >>
    ELSE LET d == a[Len(a)] - b[Len(b)] - borrow
         IN  MinusLimbs(SubSeq(a, 1, Len(a) - 1), SubSeq(b, 1, Len(b) - 1),
                        IF d < 0 THEN 1 ELSE 0)
             \o <<d % 32768>>

MinusBits(a, b) == StripLeading(BitsOfLimbs(MinusLimbs(Limbs(a), Limbs(b), 0)))

\* x < y
FloatLess(x, y) ==
    LET a == Aligned(x, y)
    IN  \E i \in 1..Len(a.x) :
            /\ a.x[i] < a.y[i]
            /\ \A j \in 1..(i - 1) : a.x[j] = a.y[j]

\* x - y for floats x >= y
FloatMinus(x, y) ==
    LET a == Aligned(x, y) IN RoundToDouble(MinusBits(a.x, a.y), a.e, FALSE)

\* float(n) for an integer n >= 0
FloatOfInt(n) == Dyadic(BitsOf(n), 0)

\* n * 0.5
HalfOfInt(n) == Dyadic(BitsOf(n), -1)

\* round(x) as format(x, ".0f") does it: to the nearest integer, halves
\* to the even one
RoundHalfEvenFloat(x) ==
    LET n     == Len(x.m)
        whole == IF x.e >= 0 THEN IntOf(x.m) * 2^x.e
                 ELSE IF n + x.e <= 0 THEN 0
                 ELSE IntOf(SubSeq(x.m, 1, n + x.e))
        half  == x.e < 0 /\ n + x.e >= 0 /\ x.m[n + x.e + 1] = 1
        more  == x.e < -1
    IN  IF half /\ (more \/ whole % 2 = 1) THEN whole + 1 ELSE whole

(***************************************************************************)
(* lead_intelligence_demo.py                                               *)
(***************************************************************************)

\* the demo fixture of the Before/After table
demo_leads ==
    << [name |-> "John Smith", email |-> "john@techcorp.com",
        company |-> "TechCorp", ai_score |-> 85],
       [name |-> "Jane Doe", email |-> "jane@gmail.com",
        company |-> "", ai_score |-> 25],
       [name |-> "Mike Johnson", email |-> "mike@enterprise-solutions.com",
        company |-> "Enterprise Solutions Inc", ai_score |-> 92],
       [name |-> "Sarah Wilson", email |-> "sarah@startup.io",
        company |-> "InnovateStartup", ai_score |-> 70] >>

DemoModes == {"Before/After Comparison", "Live Scoring", "ROI Calculator"}

\* the values the text inputs and the number inputs show when they are
\* first drawn
DefaultInputs ==
    [demo_name |-> "John Smith", demo_email |-> "john@techcorp.com",
     demo_company |-> "TechCorp Solutions",
     leads_per_month |-> 500, time_per_lead |-> 12, hourly_rate |-> 50]

\* the first option of the selectbox, and the inputs at their defaults
DefaultWidgets ==
    [demo_mode |-> "Before/After Comparison",
     demo_name |-> DefaultInputs.demo_name,
     demo_email |-> DefaultInputs.demo_email,
     demo_company |-> DefaultInputs.demo_company,
     leads_per_month |-> DefaultInputs.leads_per_month,
     time_per_lead |-> DefaultInputs.time_per_lead,
     hourly_rate |-> DefaultInputs.hourly_rate]

\* what a user may type into the text inputs
Names == {"John Smith", "Jane Doe"}
Emails == {"john@techcorp.com", "jane@gmail.com", "al@yahoo.com",
           "bo@hotmail.com", "cy@gmail.company.io"}
Companies == {"", "Acme", "Acme1", "Acme12", "TechCorp Solutions"}

\* what a user may enter into the number inputs (min_value=1)
MaxLeads == 2
MaxMinutes == 3
MaxRate == 2

LeadCounts == (1..MaxLeads) \cup {DefaultInputs.leads_per_month}
MinuteCounts == (1..MaxMinutes) \cup {DefaultInputs.time_per_lead}
Rates == (1..MaxRate) \cup {DefaultInputs.hourly_rate}

\* mutant: the fallback score is 70
AnalyzeLeadModerate70(demo_email, demo_company) ==
    IF Contains("@gmail.com", demo_email) \/ Contains("@yahoo.com", demo_email)
    THEN [score |-> 30,
          insights |-> "Personal email domain suggests lower business intent"]
    ELSE IF demo_company # "" /\ Len(demo_company) > 5
    THEN [score |-> 85,
          insights |-> "Professional company email and established business"]
    ELSE [score |-> 70,
          insights |-> "Moderate potential, needs further qualification"]

\* the body of the "Analyze Lead" button: the simulated AI analysis
AnalyzeLead(demo_email, demo_company) ==
    IF Contains("@gmail.com", demo_email) \/ Contains("@yahoo.com", demo_email)
    THEN [score |-> 30,
          insights |-> "Personal email domain suggests lower business intent"]
    ELSE IF demo_company # "" /\ Len(demo_company) > 5
    THEN [score |-> 85,
          insights |-> "Professional company email and established business"]
    ELSE [score |-> 50,
          insights |-> "Moderate potential, needs further qualification"]

\* mutant: the High cut point is exclusive
PriorityLabelGt(demo_score) ==
    IF demo_score > 80 THEN "High Priority"
    ELSE IF demo_score >= 60 THEN "Medium Priority"
    ELSE "Low Priority"

\* the priority banner chosen for a stored score
PriorityLabel(demo_score) ==
    IF demo_score >= 80 THEN "High Priority"
    ELSE IF demo_score >= 60 THEN "Medium Priority"
    ELSE "Low Priority"

\* st.session_state with no attribute set
EmptySessionState == [a \in {} |-> 0]

\* hasattr(st.session_state, attr)
HasAttr(ss, attr) == attr \in DOMAIN ss

\* mutant: the analysis is stored in every Live Scoring run
StoreAnalysisEveryRun(w, ss, button) ==
    IF w.demo_mode = "Live Scoring"
    THEN LET a == AnalyzeLead(w.demo_email, w.demo_company)
         IN  [demo_score |-> a.score, demo_insights |-> a.insights]
    ELSE ss

\* st.session_state after a run: both attributes are written on a click
StoreAnalysis(w, ss, button) ==
    IF w.demo_mode = "Live Scoring" /\ button = "analyze"
    THEN LET a == AnalyzeLead(w.demo_email, w.demo_company)
         IN  [demo_score |-> a.score, demo_insights |-> a.insights]
    ELSE ss

NoResult == [present |-> FALSE]

\* the "AI Analysis Results" column, drawn from st.session_state
ResultPane(ss) ==
    IF HasAttr(ss, "demo_score")
    THEN [present |-> TRUE,
          title |-> ss.demo_score,
          gauge |-> <<ss.demo_score, 100 - ss.demo_score>>,
          priority |-> PriorityLabel(ss.demo_score),
          insights |-> ss.demo_insights]
    ELSE NoResult

\* the AI Score column of the "After" table
AutomatedTable == [i \in 1..Len(demo_leads) |-> demo_leads[i].ai_score]

\* mutant: the annual saving subtracts the automated cost of one month
ROIMonthlyAutoCost(leads_per_month, time_per_lead, hourly_rate) ==
    LET monthly_hours == FloatDivInt(FloatOfInt(leads_per_month * time_per_lead), 60)
        monthly_cost == FloatTimesInt(monthly_hours, hourly_rate)
        annual_cost == FloatTimesInt(monthly_cost, 12)
        monthly_hours_auto == FloatDivInt(HalfOfInt(leads_per_month), 60)
        monthly_cost_auto == FloatTimesInt(monthly_hours_auto, hourly_rate)
        annual_cost_auto == FloatTimesInt(monthly_cost_auto, 12)
        monthly_savings == FloatMinus(monthly_cost, monthly_cost_auto)
        annual_savings == FloatMinus(annual_cost, monthly_cost_auto)
        time_saved_hours == FloatMinus(monthly_hours, monthly_hours_auto)
    IN  [monthly_hours |-> monthly_hours, monthly_cost |-> monthly_cost,
         annual_cost |-> annual_cost, monthly_hours_auto |-> monthly_hours_auto,
         monthly_cost_auto |-> monthly_cost_auto,
         annual_cost_auto |-> annual_cost_auto,
         monthly_savings |-> monthly_savings,
         annual_savings |-> annual_savings,
         time_saved_hours |-> time_saved_hours,
         monthly_savings_text |-> RoundHalfEvenFloat(monthly_savings),
         annual_savings_text |-> RoundHalfEvenFloat(annual_savings),
         time_saved_text |-> RoundHalfEvenFloat(time_saved_hours)]

\* the ROI Calculator's arithmetic, in Python floats, and the three metrics
\* as format(x, ",.0f") rounds them
ROI(leads_per_month, time_per_lead, hourly_rate) ==
    LET monthly_hours == FloatDivInt(FloatOfInt(leads_per_month * time_per_lead), 60)
        monthly_cost == FloatTimesInt(monthly_hours, hourly_rate)
        annual_cost == FloatTimesInt(monthly_cost, 12)
        monthly_hours_auto == FloatDivInt(HalfOfInt(leads_per_month), 60)
        monthly_cost_auto == FloatTimesInt(monthly_hours_auto, hourly_rate)
        annual_cost_auto == FloatTimesInt(monthly_cost_auto, 12)
        monthly_savings == FloatMinus(monthly_cost, monthly_cost_auto)
        annual_savings == FloatMinus(annual_cost, annual_cost_auto)
        time_saved_hours == FloatMinus(monthly_hours, monthly_hours_auto)
    IN  [monthly_hours |-> monthly_hours, monthly_cost |-> monthly_cost,
         annual_cost |-> annual_cost, monthly_hours_auto |-> monthly_hours_auto,
         monthly_cost_auto |-> monthly_cost_auto,
         annual_cost_auto |-> annual_cost_auto,
         monthly_savings |-> monthly_savings,
         annual_savings |-> annual_savings,
         time_saved_hours |-> time_saved_hours,
         monthly_savings_text |-> RoundHalfEvenFloat(monthly_savings),
         annual_savings_text |-> RoundHalfEvenFloat(annual_savings),
         time_saved_text |-> RoundHalfEvenFloat(time_saved_hours)]

\* ROI for every input the number inputs may hold, computed once
RoiTable ==
    [l \in LeadCounts, t \in MinuteCounts, r \in Rates |-> ROI(l, t, r)]

NoRoi == [present |-> FALSE]

\* the ROI Calculator section of the page
RoiPane(w) ==
    [present |-> TRUE,
     figures |-> RoiTable[w.leads_per_month, w.time_per_lead, w.hourly_rate]]

\* one run of the script, after st.session_state has been updated to ss
Page(w, ss, button) ==
    [demo_mode |-> w.demo_mode,
     ai_table |-> IF w.demo_mode = "Before/After Comparison"
                  THEN AutomatedTable ELSE << >>,
     result |-> IF w.demo_mode = "Live Scoring" THEN ResultPane(ss) ELSE NoResult,
     roi |-> IF w.demo_mode = "ROI Calculator" THEN RoiPane(w) ELSE NoRoi,
     consultation |-> (button = "consult")]

\* Streamlit runs the whole script for session s with widget values w
Rerun(s, w, button) ==
    LET ss == StoreAnalysis(w, session_state[s], button)
    IN  /\ widgets' = [widgets EXCEPT ![s] = w]
        /\ pressed' = [pressed EXCEPT ![s] = button]
        /\ session_state' = [session_state EXCEPT ![s] = ss]
        /\ shown' = [shown EXCEPT ![s] = Page(w, ss, button)]
        /\ UNCHANGED <<dashVars, ragVars>>

\* the sidebar selectbox; text inputs that were not drawn come back at
\* their defaults
SelectDemo(s, m) ==
    /\ m # widgets[s].demo_mode
    /\ Rerun(s, [DefaultWidgets EXCEPT !.demo_mode = m], "none")

EditName(s, n) ==
    /\ widgets[s].demo_mode = "Live Scoring"
    /\ n # widgets[s].demo_name
    /\ Rerun(s, [widgets[s] EXCEPT !.demo_name = n], "none")

EditEmail(s, e) ==
    /\ widgets[s].demo_mode = "Live Scoring"
    /\ e # widgets[s].demo_email
    /\ Rerun(s, [widgets[s] EXCEPT !.demo_email = e], "none")

EditCompany(s, c) ==
    /\ widgets[s].demo_mode = "Live Scoring"
    /\ c # widgets[s].demo_company
    /\ Rerun(s, [widgets[s] EXCEPT !.demo_company = c], "none")

EditLeads(s, n) ==
    /\ widgets[s].demo_mode = "ROI Calculator"
    /\ n # widgets[s].leads_per_month
    /\ Rerun(s, [widgets[s] EXCEPT !.leads_per_month = n], "none")

EditMinutes(s, n) ==
    /\ widgets[s].demo_mode = "ROI Calculator"
    /\ n # widgets[s].time_per_lead
    /\ Rerun(s, [widgets[s] EXCEPT !.time_per_lead = n], "none")

EditRate(s, n) ==
    /\ widgets[s].demo_mode = "ROI Calculator"
    /\ n # widgets[s].hourly_rate
    /\ Rerun(s, [widgets[s] EXCEPT !.hourly_rate = n], "none")

ClickAnalyze(s) ==
    /\ widgets[s].demo_mode = "Live Scoring"
    /\ Rerun(s, widgets[s], "analyze")

ClickConsultation(s) == Rerun(s, widgets[s], "consult")

\* a run with nothing changed (the app menu's Rerun)
PlainRerun(s) == Rerun(s, widgets[s], "none")

Sessions == {"A", "B"}

LeadInit ==
    /\ widgets = [s \in Sessions |-> DefaultWidgets]
    /\ pressed = [s \in Sessions |-> "none"]
    /\ session_state = [s \in Sessions |-> EmptySessionState]
    /\ shown = [s \in Sessions |-> Page(DefaultWidgets, EmptySessionState, "none")]


(***************************************************************************)
(* revenue_dashboard.py                                                    *)
(***************************************************************************)

\* pipeline_df: one record per row of the frame
pipeline_data ==
    << [Company |-> "Acme Corp", Amount |-> 25000, Stage |-> "Demo",
        Rep |-> "John", Close_Date |-> "2024-02-15"],
       [Company |-> "TechFlow", Amount |-> 45000, Stage |-> "Proposal",
        Rep |-> "Sarah", Close_Date |-> "2024-02-20"],
       [Company |-> "DataViz Inc", Amount |-> 15000, Stage |-> "Negotiation",
        Rep |-> "Mike", Close_Date |-> "2024-02-10"],
       [Company |-> "CloudSys", Amount |-> 35000, Stage |-> "Demo",
        Rep |-> "John", Close_Date |-> "2024-02-25"],
       [Company |-> "InnovateCo", Amount |-> 60000, Stage |-> "Closed Won",
        Rep |-> "Sarah", Close_Date |-> "2024-01-30"],
       [Company |-> "ScaleTech", Amount |-> 20000, Stage |-> "Qualified",
        Rep |-> "Mike", Close_Date |-> "2024-02-18"] >>

\* mutant: TechFlow's row carries the label of a score of 75 or more
health_dataMislabelled ==
    << [Customer |-> "Acme Corp", MRR |-> 2500, Health_Score |-> 85, Risk_Level |-> "Low"],
       [Customer |-> "TechFlow", MRR |-> 4200, Health_Score |-> 72, Risk_Level |-> "Low"],
       [Customer |-> "DataViz Inc", MRR |-> 1800, Health_Score |-> 45, Risk_Level |-> "High"],
       [Customer |-> "CloudSys", MRR |-> 3200, Health_Score |-> 90, Risk_Level |-> "Low"],
       [Customer |-> "InnovateCo", MRR |-> 5500, Health_Score |-> 88, Risk_Level |-> "Low"] >>

\* health_df
health_data ==
    << [Customer |-> "Acme Corp", MRR |-> 2500, Health_Score |-> 85, Risk_Level |-> "Low"],
       [Customer |-> "TechFlow", MRR |-> 4200, Health_Score |-> 72, Risk_Level |-> "Medium"],
       [Customer |-> "DataViz Inc", MRR |-> 1800, Health_Score |-> 45, Risk_Level |-> "High"],
       [Customer |-> "CloudSys", MRR |-> 3200, Health_Score |-> 90, Risk_Level |-> "Low"],
       [Customer |-> "InnovateCo", MRR |-> 5500, Health_Score |-> 88, Risk_Level |-> "Low"] >>

\* mutant: January's Net_MRR is typed as 15000 again
revenue_dataStaleNet ==
    << [Month |-> "2023-10", New_MRR |-> 12000, Churn_MRR |-> 2000, Net_MRR |-> 10000],
       [Month |-> "2023-11", New_MRR |-> 15000, Churn_MRR |-> 2500, Net_MRR |-> 12500],
       [Month |-> "2023-12", New_MRR |-> 18000, Churn_MRR |-> 3000, Net_MRR |-> 15000],
       [Month |-> "2024-01", New_MRR |-> 15000, Churn_MRR |-> 2000, Net_MRR |-> 15000],
       [Month |-> "2024-02", New_MRR |-> 22000, Churn_MRR |-> 1500, Net_MRR |-> 20500] >>

\* revenue_df
revenue_data ==
    << [Month |-> "2023-10", New_MRR |-> 12000, Churn_MRR |-> 2000, Net_MRR |-> 10000],
       [Month |-> "2023-11", New_MRR |-> 15000, Churn_MRR |-> 2500, Net_MRR |-> 12500],
       [Month |-> "2023-12", New_MRR |-> 18000, Churn_MRR |-> 3000, Net_MRR |-> 15000],
       [Month |-> "2024-01", New_MRR |-> 15000, Churn_MRR |-> 2000, Net_MRR |-> 13000],
       [Month |-> "2024-02", New_MRR |-> 22000, Churn_MRR |-> 1500, Net_MRR |-> 20500] >>

\* the three frames the data provider returns
load_mock_data ==
    [pipeline_df |-> pipeline_data,
     health_df |-> health_data,
     revenue_df |-> revenue_data]

\* mutant: a cache hit hands out the stored frames with the last month
\* appended once more
CachedLoadGrowing(c) ==
    IF c.filled
    THEN [c.value EXCEPT !.revenue_df = @ \o <<@[Len(@)]>>]
    ELSE load_mock_data

\* @st.cache_data: the stored value on a hit, the function's result on a miss
CachedLoad(c) ==
    IF c.filled THEN c.value ELSE load_mock_data

\* the cache entry after a call
CacheAfter(c) == [filled |-> TRUE, value |-> CachedLoad(c)]

EmptyCache == [filled |-> FALSE]

\* df[column] as a sequence
Column(df, column) == [i \in 1..Len(df) |-> df[i][column]]

\* Series.sum(): 0 for an empty series
RECURSIVE SeriesSum(_)
SeriesSum(series) ==
    IF Len(series) = 0 THEN 0
    ELSE series[1] + SeriesSum(Tail(series))

NaN == [kind |-> "nan"]

\* Series.mean(): the quotient sum / count, NaN for an empty series
SeriesMean(series) ==
    IF Len(series) = 0 THEN NaN
    ELSE [kind |-> "num", num |-> SeriesSum(series), den |-> Len(series)]

\* the rows of df whose column equals value, in their order
RECURSIVE RowsWhere(_, _, _)
RowsWhere(df, column, value) ==
    IF Len(df) = 0 THEN << >>
    ELSE IF df[1][column] = value
         THEN <<df[1]>> \o RowsWhere(Tail(df), column, value)
         ELSE RowsWhere(Tail(df), column, value)

\* mutant: a stage's group takes the amount of its first deal only
StageSummaryFirstOnly(pipeline_df) ==
    [stage \in {pipeline_df[i].Stage : i \in 1..Len(pipeline_df)} |->
        RowsWhere(pipeline_df, "Stage", stage)[1].Amount]

\* pipeline_df.groupby('Stage')['Amount'].sum(): one group per stage that occurs
StageSummary(pipeline_df) ==
    [stage \in {pipeline_df[i].Stage : i \in 1..Len(pipeline_df)} |->
        SeriesSum(Column(RowsWhere(pipeline_df, "Stage", stage), "Amount"))]

\* n / d rounded to the nearest integer, ties to the even one (d # 0), as
\* numpy's round and Python's format do for a value the floats hold exactly
RoundHalfEven(n, d) ==
    LET nn == IF d < 0 THEN -n ELSE n
        dd == IF d < 0 THEN -d ELSE d
        q  == nn \div dd
        r  == nn - q * dd
    IN  IF 2 * r < dd THEN q
        ELSE IF 2 * r > dd THEN q + 1
        ELSE IF q % 2 = 0 THEN q ELSE q + 1

\* one cell of Net_MRR.pct_change() * 100, rounded to one decimal: the
\* value in tenths of a percent; a zero predecessor divides by zero
GrowthCell(prev, cur) ==
    IF prev = 0
    THEN IF cur > 0 THEN [kind |-> "inf"]
         ELSE IF cur < 0 THEN [kind |-> "-inf"]
         ELSE NaN
    ELSE [kind |-> "num", tenths |-> RoundHalfEven(1000 * (cur - prev), prev)]

\* mutant: the first row is compared with itself instead of left undefined
GrowthRateFirstZero(revenue_df) ==
    [i \in 1..Len(revenue_df) |->
        [value |-> IF i = 1 THEN [kind |-> "num", tenths |-> 0]
                   ELSE GrowthCell(revenue_df[i - 1].Net_MRR, revenue_df[i].Net_MRR),
         suffix |-> "%"]]

\* revenue_display['Growth_Rate']: the text of the rounded value and '%'
GrowthRate(revenue_df) ==
    [i \in 1..Len(revenue_df) |->
        [value |-> IF i = 1 THEN NaN
                   ELSE GrowthCell(revenue_df[i - 1].Net_MRR, revenue_df[i].Net_MRR),
         suffix |-> "%"]]

\* revenue_display: a copy of revenue_df with the Growth_Rate column added
RevenueDisplay(revenue_df) ==
    [i \in 1..Len(revenue_df) |->
        [c \in DOMAIN revenue_df[i] \cup {"Growth_Rate"} |->
            IF c = "Growth_Rate" THEN GrowthRate(revenue_df)[i]
            ELSE revenue_df[i][c]]]

\* mutant: the Growth_Rate column is added to revenue_df itself
FramesAfterRunInPlace(d) ==
    [d EXCEPT !.revenue_df = RevenueDisplay(@)]

\* the three frames at the end of a run: no statement of the script
\* assigns to them or to their columns (the column is added to a copy)
FramesAfterRun(d) == d

\* the position of the first row with the largest Amount among idx
FirstLargest(df, idx) ==
    CHOOSE i \in idx :
        \A j \in idx : df[j].Amount < df[i].Amount
                        \/ (df[j].Amount = df[i].Amount /\ i <= j)

\* df.nlargest(n, 'Amount')[['Company', 'Amount', 'Stage']]
RECURSIVE NLargest(_, _, _)
NLargest(df, n, idx) ==
    IF n = 0 \/ idx = {} THEN << >>
    ELSE LET i == FirstLargest(df, idx)
         IN  <<[Company |-> df[i].Company, Amount |-> df[i].Amount,
                Stage |-> df[i].Stage]>>
             \o NLargest(df, n - 1, idx \ {i})

\* f"{x:,.0f}" of a mean: "nan" for NaN, else the nearest integer
FormatMean(x) ==
    IF x.kind = "nan" THEN [kind |-> "nan"]
    ELSE [kind |-> "num", value |-> RoundHalfEven(x.num, x.den)]

\* pipeline_df['Rep'].unique()
RepOptions(pipeline_df) == {pipeline_df[i].Rep : i \in 1..Len(pipeline_df)}

DateRanges == {"last 30 days", "last 7 days", "last 90 days", "today"}

\* the sidebar as first drawn
DefaultSidebar(d) ==
    [date_range |-> "last 30 days",
     selected_reps |-> RepOptions(d.pipeline_df),
     auto_refresh |-> FALSE]

NotRendered == [rendered |-> FALSE]

\* the rows of df whose column is one of values, in their order
RECURSIVE RowsAmong(_, _, _)
RowsAmong(df, column, values) ==
    IF Len(df) = 0 THEN << >>
    ELSE IF df[1][column] \in values
         THEN <<df[1]>> \o RowsAmong(Tail(df), column, values)
         ELSE RowsAmong(Tail(df), column, values)

\* mutant: the pipeline figures are computed over the selected reps' deals
DashboardFiltered(d, sb, demo) ==
    LET pipeline_df == RowsAmong(d.pipeline_df, "Rep", sb.selected_reps)
    IN  [rendered |-> TRUE,
         total_pipeline |-> SeriesSum(Column(pipeline_df, "Amount")),
         avg_deal |-> SeriesMean(Column(pipeline_df, "Amount")),
         avg_deal_text |-> FormatMean(SeriesMean(Column(pipeline_df, "Amount"))),
         total_mrr |-> SeriesSum(Column(d.health_df, "MRR")),
         high_risk |-> Len(RowsWhere(d.health_df, "Risk_Level", "High")),
         stage_summary |-> StageSummary(pipeline_df),
         top_deals |-> NLargest(pipeline_df, 5, 1..Len(pipeline_df)),
         high_risk_customers |-> RowsWhere(d.health_df, "Risk_Level", "High"),
         growth_rate |-> GrowthRate(d.revenue_df),
         revenue_display |-> RevenueDisplay(d.revenue_df),
         refresh_note |-> IF sb.auto_refresh THEN "Auto-refresh enabled"
                          ELSE "Manual refresh mode",
         demo_requested |-> demo]

\* one run of the script over the frames d
Dashboard(d, sb, demo) ==
    [rendered |-> TRUE,
     total_pipeline |-> SeriesSum(Column(d.pipeline_df, "Amount")),
     avg_deal |-> SeriesMean(Column(d.pipeline_df, "Amount")),
     avg_deal_text |-> FormatMean(SeriesMean(Column(d.pipeline_df, "Amount"))),
     total_mrr |-> SeriesSum(Column(d.health_df, "MRR")),
     high_risk |-> Len(RowsWhere(d.health_df, "Risk_Level", "High")),
     stage_summary |-> StageSummary(d.pipeline_df),
     top_deals |-> NLargest(d.pipeline_df, 5, 1..Len(d.pipeline_df)),
     high_risk_customers |-> RowsWhere(d.health_df, "Risk_Level", "High"),
     growth_rate |-> GrowthRate(d.revenue_df),
     revenue_display |-> RevenueDisplay(d.revenue_df),
     refresh_note |-> IF sb.auto_refresh THEN "Auto-refresh enabled"
                      ELSE "Manual refresh mode",
     demo_requested |-> demo]

\* Streamlit runs the whole script with sidebar values sb
DashRerun(sb, demo) ==
    /\ sidebar' = sb
    /\ clicked' = demo
    /\ cache' = CacheAfter(cache)
    /\ data' = FramesAfterRun(CachedLoad(cache))
    /\ view' = Dashboard(CachedLoad(cache), sb, demo)
    /\ UNCHANGED <<leadVars, ragVars>>

PickDateRange(r) ==
    /\ r # sidebar.date_range
    /\ DashRerun([sidebar EXCEPT !.date_range = r], FALSE)

SelectReps(reps) ==
    /\ reps # sidebar.selected_reps
    /\ DashRerun([sidebar EXCEPT !.selected_reps = reps], FALSE)

ToggleAutoRefresh ==
    DashRerun([sidebar EXCEPT !.auto_refresh = ~sidebar.auto_refresh], FALSE)

ClickScheduleDemo == DashRerun(sidebar, TRUE)

\* "Clear cache" of the app menu: the entry is dropped, nothing is rerun
ClearCache ==
    /\ cache.filled
    /\ cache' = EmptyCache
    /\ UNCHANGED <<sidebar, clicked, data, view>>
    /\ UNCHANGED <<leadVars, ragVars>>

\* the state after the first run
DashInit ==
    /\ sidebar = DefaultSidebar(load_mock_data)
    /\ clicked = FALSE
    /\ cache = CacheAfter(EmptyCache)
    /\ data = FramesAfterRun(CachedLoad(EmptyCache))
    /\ view = Dashboard(CachedLoad(EmptyCache), DefaultSidebar(load_mock_data), FALSE)

(***************************************************************************)
(* customer_success_rag.py                                                 *)
(***************************************************************************)

\* the keys of the customers dict, in insertion order
CustomerKeys == <<"acme_corp", "tech_solutions", "startup_co">>

customers ==
    [k \in {"acme_corp", "tech_solutions", "startup_co"} |->
        IF k = "acme_corp"
        THEN [name |-> "Acme Corp", health |-> 85, value |-> "$25,000"]
        ELSE IF k = "tech_solutions"
        THEN [name |-> "Tech Solutions Inc", health |-> 72, value |-> "$15,000"]
        ELSE [name |-> "StartupCo", health |-> 45, value |-> "$5,000"]]

sample_queries ==
    <<"How do I upgrade this customer's account?",
      "What's the billing process for premium features?",
      "Customer is having login issues, what should I check?",
      "How do I improve this customer's health score?">>

\* the options of the sample-query selectbox
QueryOptions == {""} \cup {sample_queries[i] : i \in 1..Len(sample_queries)}

\* what a user may type into the query box
TypedQueries == QueryOptions \cup {"refund policy"}

NoResponse == [present |-> FALSE]

\* mutant: the response is built for the first customer of the dict
SearchResponseFirstCustomer(w) ==
    IF w.search /\ w.user_query # ""
    THEN [present |-> TRUE,
          response |-> "Based on " \o customers[CustomerKeys[1]].name
                       \o "'s account data and our documentation, here's what I found...",
          sources_used |-> <<"Customer Success Playbook", "Admin Guide">>,
          customer_context |-> customers[CustomerKeys[1]]]
    ELSE NoResponse

\* the body of "Search Knowledge Base": mock_response, when it is built
SearchResponse(w) ==
    IF w.search /\ w.user_query # ""
    THEN [present |-> TRUE,
          response |-> "Based on " \o customers[w.selected_customer].name
                       \o "'s account data and our documentation, here's what I found...",
          sources_used |-> <<"Customer Success Playbook", "Admin Guide">>,
          customer_context |-> customers[w.selected_customer]]
    ELSE NoResponse

\* one run of the script
RagPage(w) ==
    [health_metric |-> customers[w.selected_customer].health,
     value_metric |-> customers[w.selected_customer].value,
     subheader |-> customers[w.selected_customer].name,
     answer |-> SearchResponse(w)]

RagRerun(w) ==
    /\ rag' = w
    /\ chat' = RagPage(w)
    /\ UNCHANGED <<leadVars, dashVars>>

SelectCustomer(k) ==
    /\ k # rag.selected_customer
    /\ RagRerun([rag EXCEPT !.selected_customer = k, !.search = FALSE])

\* the query box takes the chosen sample as its value
SelectQuery(q) ==
    /\ q # rag.selected_query
    /\ RagRerun([rag EXCEPT !.selected_query = q, !.user_query = q,
                            !.search = FALSE])

EditQuery(t) ==
    /\ t # rag.user_query
    /\ RagRerun([rag EXCEPT !.user_query = t, !.search = FALSE])

ClickSearch == RagRerun([rag EXCEPT !.search = TRUE])

DefaultRag ==
    [selected_customer |-> CustomerKeys[1], selected_query |-> "",
     user_query |-> "", search |-> FALSE]

RagInit ==
    /\ rag = DefaultRag
    /\ chat = RagPage(DefaultRag)

(***************************************************************************)
(* Specifications                                                          *)
(***************************************************************************)

\* what one user of the lead page can do
LeadNext(s) ==
    \/ \E m \in DemoModes : SelectDemo(s, m)
    \/ \E n \in Names : EditName(s, n)
    \/ \E e \in Emails : EditEmail(s, e)
    \/ \E c \in Companies : EditCompany(s, c)
    \/ ClickAnalyze(s)
    \/ ClickConsultation(s)
    \/ PlainRerun(s)

\* what that user can do in the ROI Calculator
RoiNext(s) ==
    \/ \E n \in LeadCounts : EditLeads(s, n)
    \/ \E n \in MinuteCounts : EditMinutes(s, n)
    \/ \E n \in Rates : EditRate(s, n)

Init == LeadInit /\ DashInit /\ RagInit

\* the lead page with one user
Next == LeadNext("A") \/ RoiNext("A")

Spec == Init /\ [][Next]_vars

\* the lead page with two users, each with a session of their own, the
\* number inputs left at their defaults
NextPair == \E s \in Sessions : LeadNext(s)

SpecPair == Init /\ [][NextPair]_vars

\* the dashboard
NextDash ==
    \/ \E r \in DateRanges : PickDateRange(r)
    \/ \E reps \in SUBSET RepOptions(load_mock_data.pipeline_df) : SelectReps(reps)
    \/ ToggleAutoRefresh
    \/ ClickScheduleDemo
    \/ ClearCache

SpecDash == Init /\ [][NextDash]_vars

\* the customer success page
NextRag ==
    \/ \E k \in DOMAIN customers : SelectCustomer(k)
    \/ \E q \in QueryOptions : SelectQuery(q)
    \/ \E t \in TypedQueries : EditQuery(t)
    \/ ClickSearch

SpecRag == Init /\ [][NextRag]_vars


\* the lead page opened with an arbitrary score already stored in the session
ScoreRange == 0..100

InsightTexts == {"Personal email domain suggests lower business intent"}

InitLabel ==
    /\ widgets = [s \in Sessions |-> DefaultWidgets]
    /\ pressed = [s \in Sessions |-> "none"]
    /\ \E n \in ScoreRange, t \in InsightTexts :
          session_state = [s \in Sessions |->
              IF s = "A" THEN [demo_score |-> n, demo_insights |-> t]
              ELSE EmptySessionState]
    /\ shown = [s \in Sessions |-> Page(DefaultWidgets, EmptySessionState, "none")]
    /\ DashInit
    /\ RagInit

SpecLabel == InitLabel /\ [][Next]_vars

\* the aggregates of the dashboard over arbitrary tables
MaxDeals == 3
MaxMonths == 3

DealRows ==
    {[Company |-> "Acme Corp", Amount |-> a, Stage |-> st, Rep |-> "John",
      Close_Date |-> "2024-02-15"] :
        a \in {-5000, 0, 15000, 25000}, st \in {"Demo", "Proposal", "Closed Won"}}

RevenueRows ==
    {[Month |-> "2024-01", New_MRR |-> r[1], Churn_MRR |-> r[2],
      Net_MRR |-> r[1] - r[2]] :
        r \in {<<0, 4>>, <<4, 4>>, <<7, 4>>, <<4, 0>>, <<20, 4>>, <<17, 0>>}}

SeqsUpTo(S, n) == UNION {[1..k -> S] : k \in 0..n}

Datasets ==
    {[load_mock_data EXCEPT !.pipeline_df = p] : p \in SeqsUpTo(DealRows, MaxDeals)}
    \cup
    {[load_mock_data EXCEPT !.revenue_df = r] : r \in SeqsUpTo(RevenueRows, MaxMonths)}

\* the provider has handed out the tables and nothing has run yet
InitAgg ==
    /\ LeadInit
    /\ RagInit
    /\ data \in Datasets
    /\ cache = [filled |-> TRUE, value |-> data]
    /\ sidebar = DefaultSidebar(data)
    /\ clicked = FALSE
    /\ view = NotRendered

\* the script's statements after the load run over the tables
RunAggregates ==
    /\ view' = Dashboard(data, sidebar, FALSE)
    /\ data' = FramesAfterRun(data)
    /\ UNCHANGED <<sidebar, clicked, cache>>
    /\ UNCHANGED <<leadVars, ragVars>>

RunDashboard ==
    /\ ~view.rendered
    /\ RunAggregates

\* the same statements once more over the tables as the first pass left them
RunAgain ==
    /\ view.rendered
    /\ RunAggregates

NextAgg == RunDashboard \/ RunAgain

SpecAgg == InitAgg /\ [][NextAgg]_vars

(***************************************************************************)
(* Properties                                                              *)
(***************************************************************************)

\* the part of an address after its last "@" ("" when there is none)
EmailDomain(e) ==
    LET ats == {i \in 1..Len(e) : SubSeq(e, i, i) = "@"}
    IN  IF ats = {} THEN ""
        ELSE LET last == CHOOSE i \in ats : \A j \in ats : j <= i
             IN  SubSeq(e, last + 1, Len(e))

FreeMailDomains == {"gmail.com", "yahoo.com", "hotmail.com"}

\* C1: whenever Analyze Lead has just run on an email whose domain is one of
\* gmail.com, yahoo.com, hotmail.com, the stored score is 30 with the
\* personal-email rationale, whatever the company is.
C1_FreeMailScores30 ==
    \A s \in Sessions :
        (pressed[s] = "analyze"
            /\ EmailDomain(widgets[s].demo_email) \in FreeMailDomains)
        => /\ session_state[s].demo_score = 30
           /\ session_state[s].demo_insights =
                  "Personal email domain suggests lower business intent"

\* C2: whenever Analyze Lead has just run on an email that is not a free-mail
\* address, the stored score is 85 exactly when the company is non-empty and
\* longer than 5 characters, and 50 otherwise.
C2_CompanyDecidesOtherwise ==
    \A s \in Sessions :
        (pressed[s] = "analyze"
            /\ EmailDomain(widgets[s].demo_email) \notin FreeMailDomains)
        => session_state[s].demo_score =
               IF widgets[s].demo_company # "" /\ Len(widgets[s].demo_company) > 5
               THEN 85 ELSE 50

\* C3: the priority shown with a stored score is High for 80..100, Medium
\* for 60..79 and Low for every other score; exactly one label is shown.
C3_PriorityCutPoints ==
    \A s \in Sessions :
        shown[s].result.present =>
            LET sc == shown[s].result.title
                p  == shown[s].result.priority
            IN  /\ sc = session_state[s].demo_score
                /\ p \in {"High Priority", "Medium Priority", "Low Priority"}
                /\ (p = "High Priority") <=> (sc >= 80 /\ sc <= 100)
                /\ (p = "Medium Priority") <=> (sc >= 60 /\ sc < 80)
                /\ (p = "Low Priority") <=> (sc < 60)

C3_Witness ==
    /\ shown["A"].result.present
    /\ shown["A"].result.title = 60
    /\ shown["A"].result.priority = "Medium Priority"

\* C4: every health record the provider returned carries the risk level of
\* its health score: 75 and above Low, 50..74 Medium, below 50 High.
C4_RiskLevelMatchesScore ==
    \A i \in 1..Len(data.health_df) :
        LET h == data.health_df[i]
        IN  h.Risk_Level = IF h.Health_Score >= 75 THEN "Low"
                           ELSE IF h.Health_Score >= 50 THEN "Medium"
                           ELSE "High"

C4_Witness ==
    /\ sidebar.auto_refresh
    /\ view.rendered
    /\ \E i \in 1..Len(data.health_df) :
          data.health_df[i].Health_Score = 72 /\ data.health_df[i].Risk_Level = "Medium"
    /\ \E i \in 1..Len(data.health_df) :
          data.health_df[i].Health_Score = 45 /\ data.health_df[i].Risk_Level = "High"
    /\ view.high_risk = 1

\* C5: in every revenue record the provider returned, Net_MRR is New_MRR
\* minus Churn_MRR.
C5_NetIsNewMinusChurn ==
    \A i \in 1..Len(data.revenue_df) :
        data.revenue_df[i].Net_MRR =
            data.revenue_df[i].New_MRR - data.revenue_df[i].Churn_MRR

C5_Witness ==
    /\ clicked
    /\ view.rendered
    /\ Len(data.revenue_df) = 5
    /\ data.revenue_df[4].Net_MRR = 13000
    /\ data.revenue_df[4].Churn_MRR = 2000

\* the sum of the amounts of the rows of df at the positions in idx
RECURSIVE AmountOver(_, _)
AmountOver(df, idx) ==
    IF idx = {} THEN 0
    ELSE LET i == CHOOSE j \in idx : TRUE
         IN  df[i].Amount + AmountOver(df, idx \ {i})

\* the sum of the values of a mapping
RECURSIVE ValuesSum(_, _)
ValuesSum(f, keys) ==
    IF keys = {} THEN 0
    ELSE LET k == CHOOSE j \in keys : TRUE
         IN  f[k] + ValuesSum(f, keys \ {k})

\* C6: the per-stage grouping has exactly the stages of the input as keys,
\* each mapped to the sum of the amounts of the deals in that stage, and
\* the group values add up to the pipeline total, the sum of all amounts.
C6_GroupSumByStage ==
    view.rendered =>
        LET df == data.pipeline_df
            g  == view.stage_summary
        IN  /\ DOMAIN g = {df[i].Stage : i \in 1..Len(df)}
            /\ \A st \in DOMAIN g :
                  g[st] = AmountOver(df, {i \in 1..Len(df) : df[i].Stage = st})
            /\ view.total_pipeline = AmountOver(df, 1..Len(df))
            /\ ValuesSum(g, DOMAIN g) = view.total_pipeline

C6_Witness ==
    /\ view.rendered
    /\ Len(data.pipeline_df) = 3
    /\ DOMAIN view.stage_summary = {"Demo", "Proposal"}
    /\ view.stage_summary["Demo"] = 40000
    /\ view.stage_summary["Proposal"] = 25000
    /\ view.total_pipeline = 65000

\* C7: the average deal amount over no deals ends in an EmptyInputError;
\* no number and no NaN is produced for display.
C7_EmptyAverageRaises ==
    (view.rendered /\ Len(data.pipeline_df) = 0)
        => /\ view.avg_deal.kind = "EmptyInputError"
           /\ view.avg_deal_text.kind = "EmptyInputError"

Abs(x) == IF x < 0 THEN -x ELSE x

\* C8 as claimed: the growth rate of the first month is null, and that of
\* each later month is exactly (Net[i] - Net[i-1]) / Net[i-1] * 100.
C8_GrowthRateExact ==
    view.rendered =>
        \A i \in 1..Len(data.revenue_df) :
            LET g == view.growth_rate[i].value
            IN  IF i = 1 THEN g.kind = "nan"
                ELSE LET prev == data.revenue_df[i - 1].Net_MRR
                         cur  == data.revenue_df[i].Net_MRR
                     IN  prev # 0 =>
                            /\ g.kind = "num"
                            /\ g.tenths * prev = 1000 * (cur - prev)

\* C8 amended: the growth rate of the first month is NaN, shown as text
\* with the '%' suffix; that of each later month whose predecessor is not
\* zero is the formula's value rounded to the nearest tenth of a percent,
\* shown with the '%' suffix.
C8_GrowthRateRounded ==
    view.rendered =>
        /\ Len(view.growth_rate) = Len(data.revenue_df)
        /\ \A i \in 1..Len(data.revenue_df) :
            LET g == view.growth_rate[i]
            IN  /\ g.suffix = "%"
                /\ IF i = 1 THEN g.value.kind = "nan"
                   ELSE LET prev == data.revenue_df[i - 1].Net_MRR
                            cur  == data.revenue_df[i].Net_MRR
                        IN  prev # 0 =>
                               /\ g.value.kind = "num"
                               /\ 2 * Abs(g.value.tenths * prev - 1000 * (cur - prev))
                                      <= Abs(prev)

C8_Witness ==
    /\ view.rendered
    /\ Len(data.revenue_df) = 3
    /\ data.revenue_df[1].Net_MRR = 3
    /\ data.revenue_df[2].Net_MRR = 4
    /\ data.revenue_df[3].Net_MRR = 16
    /\ view.growth_rate[1].value.kind = "nan"
    /\ view.growth_rate[2].value = [kind |-> "num", tenths |-> 333]
    /\ view.growth_rate[3].value = [kind |-> "num", tenths |-> 3000]

\* C9: every score the page shows for a lead is the score the Analyze Lead
\* table gives for that lead's email and company; in particular each AI
\* Score of the Before/After table.
C9_ShownScoresAreDerived ==
    \A s \in Sessions :
        shown[s].demo_mode = "Before/After Comparison" =>
            \A i \in 1..Len(demo_leads) :
                shown[s].ai_table[i] =
                    AnalyzeLead(demo_leads[i].email, demo_leads[i].company).score

\* C10: two runs with the same widget values and no button pressed show
\* the same scoring result, whatever happened before in either session.
C10_RenderDependsOnInputsOnly ==
    (/\ widgets["A"] = widgets["B"]
     /\ pressed["A"] = "none"
     /\ pressed["B"] = "none")
        => shown["A"] = shown["B"]


\* C11: every invocation of load_mock_data, in the first run and in every
\* later one, from the cache or not, returns the same three tables.
C11_ProviderDeterministic ==
    /\ data.pipeline_df = pipeline_data
    /\ data.health_df = health_data
    /\ data.revenue_df = revenue_data
    /\ cache.filled =>
          /\ cache.value.pipeline_df = pipeline_data
          /\ cache.value.health_df = health_data
          /\ cache.value.revenue_df = revenue_data

C11_Witness ==
    /\ clicked
    /\ sidebar.auto_refresh
    /\ cache.filled
    /\ Len(data.pipeline_df) = 6
    /\ Len(data.revenue_df) = 5
    /\ data.revenue_df[5].Month = "2024-02"

\* C12: after the aggregates have run, the three tables still equal the
\* tables the provider handed out (the Growth_Rate column is on the copy
\* only), and running the aggregates again changes neither the tables nor
\* any output.
C12_AggregatesLeaveInputAlone ==
    /\ [](view.rendered =>
            /\ data = cache.value
            /\ \A i \in 1..Len(data.revenue_df) :
                  /\ "Growth_Rate" \notin DOMAIN data.revenue_df[i]
                  /\ "Growth_Rate" \in DOMAIN view.revenue_display[i])
    /\ [][view.rendered => (view' = view /\ data' = data)]_vars

C12_Witness ==
    /\ view.rendered
    /\ Len(data.revenue_df) = 2
    /\ data = cache.value
    /\ view.revenue_display[2].Growth_Rate.value.kind = "num"
    /\ view.revenue_display[2].Net_MRR = data.revenue_df[2].Net_MRR

\* C13: no deal with a negative amount reaches an aggregate: its
\* construction is rejected with InvalidRecordError.
C13_InvalidRecordsRejected ==
    view.rendered =>
        \A i \in 1..Len(data.pipeline_df) : data.pipeline_df[i].Amount >= 0

\* the stored pair is the table's outcome for an email and a company
StoredIs(ss, email, company) ==
    /\ DOMAIN ss = {"demo_score", "demo_insights"}
    /\ ss.demo_score = AnalyzeLead(email, company).score
    /\ ss.demo_insights = AnalyzeLead(email, company).insights

\* C14: a session starts with nothing stored; a run in which Analyze Lead
\* was pressed stores the table's outcome for the email and company of that
\* run, both fields together; every other run (an edit of name, email or
\* company, a change of demo mode) leaves the stored pair as it was.
C14_StoredPairFollowsLastClick ==
    /\ \A s \in Sessions : session_state[s] = EmptySessionState
    /\ [](\A s \in Sessions :
            /\ DOMAIN session_state[s] \in {{}, {"demo_score", "demo_insights"}}
            /\ pressed[s] = "analyze" =>
                  StoredIs(session_state[s], widgets[s].demo_email,
                           widgets[s].demo_company))
    /\ [][\A s \in Sessions :
            pressed'[s] # "analyze" => session_state'[s] = session_state[s]]_vars

\* the result pane shows a score that the inputs on screen do not give
C14_Witness ==
    /\ widgets["A"].demo_mode = "Live Scoring"
    /\ pressed["A"] = "none"
    /\ widgets["A"].demo_email = "jane@gmail.com"
    /\ shown["A"].result.present
    /\ shown["A"].result.title = 85
    /\ session_state["A"].demo_score = 85
    /\ AnalyzeLead(widgets["A"].demo_email, widgets["A"].demo_company).score = 30

\* C15: a stored score is 30, 50 or 85, so 100 minus it is not negative,
\* and the priority shown is High or Low, never Medium.
C15_ScoresAndPriorities ==
    \A s \in Sessions :
        /\ HasAttr(session_state[s], "demo_score") =>
              /\ session_state[s].demo_score \in {30, 50, 85}
              /\ 100 - session_state[s].demo_score >= 0
        /\ shown[s].result.present =>
              /\ shown[s].result.title \in {30, 50, 85}
              /\ shown[s].result.gauge[2] >= 0
              /\ shown[s].result.priority \in {"High Priority", "Low Priority"}

C15_Witness ==
    /\ shown["A"].result.present
    /\ shown["A"].result.title = 50
    /\ shown["A"].result.priority = "Low Priority"
    /\ widgets["A"].demo_company = "Acme1"

\* x * k, exactly
ExactTimes(x, k) == Dyadic(TimesBits(x.m, k), x.e)

\* |x - y|, exactly
ExactDistance(x, y) ==
    LET a == Aligned(x, y)
    IN  IF FloatLess(x, y) THEN Dyadic(MinusBits(a.y, a.x), a.e)
        ELSE Dyadic(MinusBits(a.x, a.y), a.e)

\* |x - y| <= y * 2^-48: x is y up to the rounding of a few float operations
WithinRounding(x, y) ==
    LET d == ExactDistance(x, y)
    IN  Len(d.m) = 0 \/ ~FloatLess(y, [m |-> d.m, e |-> d.e + 48])

\* C16 as stated: in the ROI Calculator the automated cost is below the
\* manual cost, the monthly saving is leads * (minutes - 0.5) / 60 * rate
\* and positive, the annual saving is exactly 12 times the monthly saving,
\* and the hours saved are the manual hours minus the automated hours.
C16_RoiExact ==
    \A s \in Sessions :
        shown[s].roi.present =>
            LET w == widgets[s]
                f == shown[s].roi.figures
            IN  /\ FloatLess(f.monthly_cost_auto, f.monthly_cost)
                /\ FloatLess(f.annual_cost_auto, f.annual_cost)
                /\ f.monthly_savings =
                      FloatTimesInt(
                          FloatDivInt(HalfOfInt(w.leads_per_month
                                                  * (2 * w.time_per_lead - 1)), 60),
                          w.hourly_rate)
                /\ Len(f.monthly_savings.m) > 0
                /\ f.annual_savings = FloatTimesInt(f.monthly_savings, 12)
                /\ f.time_saved_hours =
                      FloatMinus(f.monthly_hours, f.monthly_hours_auto)

\* C16, amended: the same, with the monthly saving equal to
\* leads * (2 * minutes - 1) * rate / 120 and the annual saving equal to 12
\* times the monthly saving up to a relative error of 2^-48 each, not
\* exactly.
C16_RoiWithinRounding ==
    \A s \in Sessions :
        shown[s].roi.present =>
            LET w == widgets[s]
                f == shown[s].roi.figures
            IN  /\ FloatLess(f.monthly_cost_auto, f.monthly_cost)
                /\ FloatLess(f.annual_cost_auto, f.annual_cost)
                /\ WithinRounding(
                       ExactTimes(f.monthly_savings, 120),
                       FloatOfInt(w.leads_per_month * (2 * w.time_per_lead - 1)
                                    * w.hourly_rate))
                /\ Len(f.monthly_savings.m) > 0
                /\ WithinRounding(f.annual_savings,
                                  ExactTimes(f.monthly_savings, 12))
                /\ f.time_saved_hours =
                      FloatMinus(f.monthly_hours, f.monthly_hours_auto)

\* one lead a month at 3 minutes and 1 dollar an hour: the annual saving is
\* 0.5000000000000001, shown as $1, while 12 times the monthly saving is 0.5
C16_Witness ==
    /\ shown["A"].roi.present
    /\ widgets["A"].leads_per_month = 1
    /\ widgets["A"].time_per_lead = 3
    /\ widgets["A"].hourly_rate = 1
    /\ shown["A"].roi.figures.annual_savings #
          FloatTimesInt(shown["A"].roi.figures.monthly_savings, 12)
    /\ FloatTimesInt(shown["A"].roi.figures.monthly_savings, 12) = HalfOfInt(1)
    /\ shown["A"].roi.figures.annual_savings_text = 1

C18_ResponseOnlyOnSearch ==
    /\ chat.answer.present <=> (rag.search /\ rag.user_query # "")
    /\ chat.answer.present =>
          /\ \E k \in {"acme_corp", "tech_solutions", "startup_co"} :
                /\ k = rag.selected_customer
                /\ chat.answer.customer_context = customers[k]
                /\ chat.answer.response =
                      "Based on " \o customers[k].name
                      \o "'s account data and our documentation, here's what I found..."
                /\ chat.subheader = customers[k].name
          /\ chat.answer.sources_used = <<"Customer Success Playbook", "Admin Guide">>

C18_Witness ==
    /\ rag.search
    /\ rag.selected_customer = "startup_co"
    /\ rag.user_query = "refund policy"
    /\ chat.answer.present
    /\ chat.answer.customer_context.health = 45
    /\ Contains("StartupCo", chat.answer.response)

=============================================================================
